---- MODULE Spec2Model ----
(***************************************************************************)
(* A model of the naga-lsp language server (src/src/main.rs): the          *)
(* initialize handshake, the main loop that validates every                *)
(* textDocument/didChange notification with the WGSL front end and         *)
(* publishes the resulting diagnostics, and the shutdown path.             *)
(*                                                                         *)
(* The transport (lsp_server::Connection), the WGSL parser                 *)
(* (naga::front::wgsl::parse_str) and the protocol types are libraries;    *)
(* they are modelled at the places main.rs calls them, by what the calls   *)
(* do in the library version whose API main.rs uses (Notification::extract *)
(* returning Result<Params, Notification>).                                *)
(***************************************************************************)
EXTENDS Integers, Sequences, FiniteSets, TLC

VARIABLES
    profile,         \* which inputs the client draws its messages from
    inbox,           \* connection.receiver: messages read and not yet received
    rxClosed,        \* the reader thread has ended (end of input, or exit read)
    nsent,           \* number of messages the client has written so far
    outbox,          \* messages handed to connection.sender, in order
    causes,          \* history: for each outbox entry, the seq of the inbound
                     \* message that was being handled when it was sent
    senderOpen,      \* the writer thread is alive (sender.send succeeds)
    pc,              \* where main() is blocked
    params,          \* initialization_params returned by connection.initialize
    initialized,     \* connection.initialize has returned Ok
    mainLoopResult,  \* "none" | "Ok" | "Err" | "panic"
    exitStatus,      \* "running" | "Ok" | "Err" | "panic"
    joined,          \* io_threads.join() has been called
    received,        \* history: the inbound messages received so far, in order
    validated        \* history: the calls of wgsl::parse_str, in order

vars == <<profile, inbox, rxClosed, nsent, outbox, causes,
          senderOpen, pc, params, initialized, mainLoopResult, exitStatus,
          joined, received, validated>>

(***************************************************************************)
(* Bounds of the model.                                                    *)
(***************************************************************************)
\* messages the client writes in one session
MaxMsgs == 5
\* messages that may wait in connection.receiver
MaxQueue == 2
\* messages the client writes in one session of the translation profile
MaxMsgsT == 4
\* messages the client writes in one session of the short profile
MaxMsgsF == 4

(***************************************************************************)
(* Unsigned machine integers.  A number is kept as two 16-bit limbs,       *)
(* value = hi * 2^16 + lo; a u32 has hi < 2^16, a 64-bit usize may have    *)
(* hi >= 2^16.                                                             *)
(***************************************************************************)
Limb == 2^16

N(h, l) == [hi |-> h, lo |-> l]

Zero == N(0, 0)

U32Max == N(Limb - 1, Limb - 1)

IsU32(n) == n.hi < Limb

\* `x as u32` of a usize: keeps the low 32 bits
AsU32(n) == N(n.hi % Limb, n.lo)

\* a < b
Less(a, b) == a.hi < b.hi \/ (a.hi = b.hi /\ a.lo < b.lo)

\* u32 `a - k` (k < 2^16): overflows when a < k
SubOverflows(a, k) == a.hi = 0 /\ a.lo < k

SubWrapping(a, k) ==
    IF a.lo >= k THEN N(a.hi, a.lo - k)
    ELSE N((a.hi + Limb - 1) % Limb, a.lo + Limb - k)

\* u32 `a + k` (k < 2^16): overflows when a + k >= 2^32
AddOverflows(a, k) == a.hi + ((a.lo + k) \div Limb) >= Limb

AddWrapping(a, k) ==
    N((a.hi + ((a.lo + k) \div Limb)) % Limb, (a.lo + k) % Limb)

(***************************************************************************)
(* The Validator: naga::front::wgsl::parse_str.  Each document text the    *)
(* client may send is named, and the table gives the position (line,       *)
(* column), a pair of usize, of the ParseError the parser returns for it.  *)
(* A text that is not in the table parses.                                 *)
(***************************************************************************)
ErrTable ==
    { [text |-> "invalid(",   pos |-> <<N(0, 1), N(0, 9)>>],
      [text |-> "err@3:5",    pos |-> <<N(0, 3), N(0, 5)>>],
      [text |-> "err@1:1",    pos |-> <<N(0, 1), N(0, 1)>>],
      [text |-> "err@0:1",    pos |-> <<N(0, 0), N(0, 1)>>],
      [text |-> "err@1:0",    pos |-> <<N(0, 1), N(0, 0)>>],
      [text |-> "err@0:0",    pos |-> <<N(0, 0), N(0, 0)>>],
      [text |-> "err@1:M-100", pos |-> <<N(0, 1), N(Limb - 1, Limb - 100)>>],
      [text |-> "err@1:M-99", pos |-> <<N(0, 1), N(Limb - 1, Limb - 99)>>],
      [text |-> "err@M+3:1",  pos |-> <<N(Limb, 3), N(0, 1)>>],
      [text |-> "err@1:M+3",  pos |-> <<N(0, 1), N(Limb, 3)>>],
      [text |-> "err@M:2",    pos |-> <<N(Limb, 0), N(0, 2)>>] }

NoPos == <<Zero, Zero>>

\* wgsl::parse_str(text): Ok(_) or Err(err) with err.pos
parse_str(text) ==
    IF \E e \in ErrTable : e.text = text
    THEN [ok |-> FALSE, pos |-> (CHOOSE e \in ErrTable : e.text = text).pos]
    ELSE [ok |-> TRUE, pos |-> NoPos]

\* the texts of the translation profile
TranslateTexts == {"valid"} \cup {e.text : e \in ErrTable}

(***************************************************************************)
(* The Diagnostic Translator (main.rs 132-151).                            *)
(***************************************************************************)
EndOffset == 99

\* Mutant of StartUnderflows: only the line is looked at.
StartUnderflowsLineOnly(pos) == SubOverflows(AsU32(pos[1]), 1)

\* `err.pos.0 as u32 - 1` or `err.pos.1 as u32 - 1` underflows
\* (main.rs 135-136; line 139 repeats the first)
StartUnderflows(pos) ==
    \/ SubOverflows(AsU32(pos[1]), 1)
    \/ SubOverflows(AsU32(pos[2]), 1)

\* one of the four u32 computations overflows
TranslateOverflows(pos) ==
    \/ StartUnderflows(pos)
    \/ AddOverflows(AsU32(pos[2]), EndOffset)

\* format!("{:?}", err)
DebugFormat(pos) == <<"ParseError", pos>>

StartLine(pos) == SubWrapping(AsU32(pos[1]), 1)

\* Mutant of StartCharacter: the column is passed on as it is, 1-based.
StartCharacterOneBased(pos) == AsU32(pos[2])

StartCharacter(pos) == SubWrapping(AsU32(pos[2]), 1)

EndLine(pos) == SubWrapping(AsU32(pos[1]), 1)

EndCharacter(pos) == AddWrapping(AsU32(pos[2]), EndOffset)

Severity == "Error"

\* the Diagnostic built from err (the value a build without overflow
\* checks computes; a build with them panics when TranslateOverflows)
Translate(pos) ==
    [range    |-> [start |-> [line |-> StartLine(pos),
                              character |-> StartCharacter(pos)],
                   end   |-> [line |-> EndLine(pos),
                              character |-> EndCharacter(pos)]],
     severity |-> Severity,
     message  |-> DebugFormat(pos)]


(***************************************************************************)
(* Messages.  seq is the position of an inbound message in the client's    *)
(* stream (history, not read by the server); the id of a request or        *)
(* response is chosen by the client, here its seq.                         *)
(***************************************************************************)
DidChange == "textDocument/didChange"

PublishDiagnostics == "textDocument/publishDiagnostics"

NoDocument == [uri |-> "", version |-> 0]

\* params that carry nothing the server reads; decodable tells whether
\* serde can decode them into the type the method asks for
Plain(decodable) ==
    [decodable |-> decodable, text_document |-> NoDocument,
     content_changes |-> <<>>]

Request(method, ps) ==
    [kind |-> "Request", method |-> method, params |-> ps]

Notif(method, ps) ==
    [kind |-> "Notification", method |-> method, params |-> ps]

ClientResponse ==
    [kind |-> "Response", method |-> "", params |-> Plain(TRUE)]

Document(uri, version) == [uri |-> uri, version |-> version]

SessionDocuments ==
    { Document("file://a.txt", 1), Document("file://a.txt", 2),
      Document("file://b.txt", 1) }

\* the document whose notifications also come with no entry and with two
FirstDocument == Document("file://a.txt", 1)

TranslateDocuments == { Document("file://a.txt", 2) }

Change(text) == [text |-> text]

\* content-change sequences with exactly one entry
SingleChanges == { <<Change("valid")>>, <<Change("invalid(")>> }

\* with none, and with more than one
OddChanges == { <<>>, <<Change("invalid("), Change("valid")>> }

TranslateChanges == { <<Change(t)>> : t \in TranslateTexts }

DidChangeParams(doc, changes) ==
    [decodable |-> TRUE, text_document |-> doc, content_changes |-> changes]

ControlMessages ==
    { Request("initialize", Plain(TRUE)),
      Request("initialize", Plain(FALSE)),
      Request("shutdown", Plain(TRUE)),
      Request("textDocument/definition", Plain(TRUE)),
      ClientResponse,
      Notif("initialized", Plain(TRUE)),
      Notif("exit", Plain(TRUE)),
      Notif(DidChange, Plain(FALSE)) }

\* the messages a client of the given profile may write
Universe(p) ==
    ControlMessages \cup
    IF p # "translate"
    THEN { Notif(DidChange, DidChangeParams(d, c)) :
             d \in SessionDocuments, c \in SingleChanges }
         \cup { Notif(DidChange, DidChangeParams(FirstDocument, c)) :
                  c \in OddChanges }
    ELSE { Notif(DidChange, DidChangeParams(d, c)) :
             d \in TranslateDocuments, c \in TranslateChanges }

Budget(p) ==
    CASE p = "session" -> MaxMsgs
      [] p = "translate" -> MaxMsgsT
      [] OTHER -> MaxMsgsF

\* the message as it arrives: stamped with its place in the stream
Stamp(m, n) ==
    IF m.kind = "Notification"
    THEN [kind |-> m.kind, method |-> m.method, params |-> m.params,
          seq |-> n]
    ELSE [kind |-> m.kind, method |-> m.method, params |-> m.params,
          id |-> n, seq |-> n]

is_initialize(m) == m.kind = "Request" /\ m.method = "initialize"

is_shutdown(m) == m.kind = "Request" /\ m.method = "shutdown"

is_initialized(m) == m.kind = "Notification" /\ m.method = "initialized"

is_exit(m) == m.kind = "Notification" /\ m.method = "exit"

(***************************************************************************)
(* Outbound messages.                                                      *)
(***************************************************************************)
\* ServerCapabilities with text_document_sync = Full (main.rs 65-69)
\* Mutant of server_capabilities: ServerCapabilities::default(), which
\* declares no text document sync.
server_capabilities_default == [textDocumentSync |-> "None"]

server_capabilities == [textDocumentSync |-> "Full"]

\* Response::new_ok(id, result)
Response(id, result) == [kind |-> "Response", id |-> id, result |-> result]

InitializeResult == [capabilities |-> server_capabilities]

\* the unit result () of the shutdown response
NullResult == [null |-> TRUE]

IsPublication(o) == o.kind = "Notification" /\ o.method = PublishDiagnostics

\* the publications sent so far, as indices of outbox
Publications == { i \in 1..Len(outbox) : IsPublication(outbox[i]) }

\* the diagnostics of the publication sent last
LastDiags ==
    IF Publications = {} THEN <<>>
    ELSE outbox[CHOOSE i \in Publications : \A j \in Publications : j <= i]
           .params.diagnostics

\* Mutant of Diags: the vector outlives the iteration and is never cleared.
DiagsAccumulated(res) ==
    IF res.ok THEN LastDiags ELSE Append(LastDiags, Translate(res.pos))

\* diags after the match on res (main.rs 122-154)
Diags(res) == IF res.ok THEN <<>> ELSE <<Translate(res.pos)>>

\* Mutant of DiagNot: the version is remembered from the first publication
\* instead of being taken from the notification at hand.
DiagNotStaleVersion(text_document, diags) ==
    [kind   |-> "Notification",
     method |-> PublishDiagnostics,
     params |-> [uri         |-> text_document.uri,
                 diagnostics |-> diags,
                 version     |->
                     IF Publications = {} THEN text_document.version
                     ELSE outbox[CHOOSE i \in Publications :
                                   \A j \in Publications : i <= j]
                            .params.version]]

\* the notification send_diagnostics builds (main.rs 176-185)
DiagNot(text_document, diags) ==
    [kind   |-> "Notification",
     method |-> PublishDiagnostics,
     params |-> [uri         |-> text_document.uri,
                 diagnostics |-> diags,
                 version     |-> text_document.version]]

(***************************************************************************)
(* The state after construction: main() has created the transport and is   *)
(* about to call connection.initialize (main.rs 62-70).                    *)
(***************************************************************************)
InitCommon ==
    /\ inbox = <<>>
    /\ rxClosed = FALSE
    /\ nsent = 0
    /\ outbox = <<>>
    /\ causes = <<>>
    /\ senderOpen = TRUE
    /\ pc = "initialize_start"
    /\ params = Plain(FALSE)
    /\ initialized = FALSE
    /\ mainLoopResult = "none"
    /\ exitStatus = "running"
    /\ joined = FALSE
    /\ received = <<>>
    /\ validated = <<>>

Init == profile = "session" /\ InitCommon

InitT == profile = "translate" /\ InitCommon

\* the session profile's messages, in shorter sessions
InitF == profile = "short" /\ InitCommon

(***************************************************************************)
(* The environment: the client and the two pump threads.                   *)
(***************************************************************************)
\* The client writes a message and the reader thread puts it in the
\* channel.  The reader thread ends after it has forwarded an exit
\* notification.
ClientSend ==
    /\ exitStatus = "running"
    /\ ~rxClosed
    /\ nsent < Budget(profile)
    /\ Len(inbox) < MaxQueue
    /\ \E m \in Universe(profile) :
          /\ inbox' = Append(inbox, Stamp(m, nsent + 1))
          /\ rxClosed' = is_exit(m)
    /\ nsent' = nsent + 1
    /\ UNCHANGED <<profile, outbox, causes, senderOpen, pc,
                   params, initialized, mainLoopResult, exitStatus, joined,
                   received, validated>>

\* The client closes its end: the reader thread sees the end of input.
ClientClose ==
    /\ exitStatus = "running"
    /\ ~rxClosed
    /\ rxClosed' = TRUE
    /\ UNCHANGED <<profile, inbox, nsent, outbox, causes,
                   senderOpen, pc, params, initialized, mainLoopResult,
                   exitStatus, joined, received, validated>>

\* The writer thread fails to write a message it was handed and ends;
\* from then on sender.send returns an error.
WriterFail ==
    /\ exitStatus = "running"
    /\ senderOpen
    /\ outbox # <<>>
    /\ senderOpen' = FALSE
    /\ UNCHANGED <<profile, inbox, rxClosed, nsent, outbox,
                   causes, pc, params, initialized, mainLoopResult,
                   exitStatus, joined, received, validated>>

(***************************************************************************)
(* Receiving.                                                              *)
(***************************************************************************)
\* Mutant of NextMsg: the newest message of the channel is taken first.
NextMsgNewest == inbox[Len(inbox)]

\* the message a blocking receive returns
NextMsg == Head(inbox)

\* the channel is closed and drained: the receive fails, the iterator ends
Disconnected == inbox = <<>> /\ rxClosed

\* receive NextMsg
Receive ==
    /\ inbox # <<>>
    /\ inbox' = Tail(inbox)
    /\ received' = Append(received, NextMsg)

\* main() returns early through `?` or unwinds: no join
Abort(status) ==
    /\ pc' = "exit"
    /\ exitStatus' = status

\* connection.sender.send(m) of a message known to be accepted
Sent(m) ==
    /\ outbox' = Append(outbox, m)
    /\ causes' = Append(causes, NextMsg.seq)

(***************************************************************************)
(* connection.initialize (main.rs 70).                                     *)
(***************************************************************************)
\* Mutant of InitializeStartOk: the handshake does not wait for the
\* initialized notification and main_loop starts at once.
InitializeStartNoWait ==
    /\ pc = "initialize_start"
    /\ Receive
    /\ is_initialize(NextMsg)
    /\ params' = NextMsg.params
    /\ Sent(Response(NextMsg.id, InitializeResult))
    /\ pc' = "main_loop"
    /\ UNCHANGED <<profile, rxClosed, nsent, senderOpen,
                   initialized, mainLoopResult, exitStatus, joined, validated>>

\* initialize_start, and the response initialize_finish sends before it
\* blocks again.  No message has been sent before, so the writer thread
\* is alive and the send succeeds.
InitializeStartOk ==
    /\ pc = "initialize_start"
    /\ Receive
    /\ is_initialize(NextMsg)
    /\ params' = NextMsg.params
    /\ Sent(Response(NextMsg.id, InitializeResult))
    /\ pc' = "initialize_finish"
    /\ UNCHANGED <<profile, rxClosed, nsent, senderOpen,
                   initialized, mainLoopResult, exitStatus, joined, validated>>

\* anything but an initialize request: ProtocolError
InitializeStartErr ==
    /\ pc = "initialize_start"
    /\ \/ Receive /\ ~is_initialize(NextMsg)
       \/ Disconnected /\ UNCHANGED <<inbox, received>>
    /\ Abort("Err")
    /\ UNCHANGED <<profile, rxClosed, nsent, outbox, causes,
                   senderOpen, params, initialized, mainLoopResult, joined,
                   validated>>

\* initialize_finish receives the initialized notification; initialize
\* returns Ok(params) and main_loop starts by decoding them (main.rs 83):
\* the unwrap panics when they are no InitializeParams.
InitializeFinishOk ==
    /\ pc = "initialize_finish"
    /\ Receive
    /\ is_initialized(NextMsg)
    /\ initialized' = TRUE
    /\ IF params.decodable
       THEN /\ pc' = "main_loop"
            /\ UNCHANGED <<mainLoopResult, exitStatus>>
       ELSE /\ mainLoopResult' = "panic"
            /\ Abort("panic")
    /\ UNCHANGED <<profile, rxClosed, nsent, outbox, causes,
                   senderOpen, params, joined, validated>>

InitializeFinishErr ==
    /\ pc = "initialize_finish"
    /\ \/ Receive /\ ~is_initialized(NextMsg)
       \/ Disconnected /\ UNCHANGED <<inbox, received>>
    /\ Abort("Err")
    /\ UNCHANGED <<profile, rxClosed, nsent, outbox, causes,
                   senderOpen, params, initialized, mainLoopResult, joined,
                   validated>>

(***************************************************************************)
(* main_loop (main.rs 85-160): one message is received and handled to the  *)
(* end before the next is received.                                        *)
(***************************************************************************)
\* main_loop returns: Ok goes on to io_threads.join, Err leaves main
\* through `?`, a panic unwinds
Return(result) ==
    /\ mainLoopResult' = result
    /\ IF result = "Ok"
       THEN pc' = "join" /\ UNCHANGED exitStatus
       ELSE Abort(result)

\* cast_notification::<DidChangeTextDocument>(not), that is
\* not.extract("textDocument/didChange"): Err(not) for another method,
\* Ok(params) when the params decode, and a panic when they do not
cast_notification(not) ==
    IF not.method # DidChange THEN "Err"
    ELSE IF not.params.decodable THEN "Ok"
    ELSE "panic"

\* Mutant of ChangeText: the last content-change entry is taken.
ChangeTextLast(did_change) ==
    did_change.content_changes[Len(did_change.content_changes)].text

\* the text handed to the Validator (main.rs 117-119)
ChangeText(did_change) == did_change.content_changes[1].text

\* Mutant of HandleNotification: when the text parses there is "nothing
\* to report" and no publication is sent.
HandleNotificationSkipsEmpty(not, checks) ==
    LET did_change == not.params
        res == parse_str(ChangeText(did_change))
        call == <<ChangeText(did_change)>>
    IN  CASE cast_notification(not) = "Err" ->
               [status |-> "continue", calls |-> <<>>, out |-> <<>>]
          [] cast_notification(not) = "panic" ->
               [status |-> "panic", calls |-> <<>>, out |-> <<>>]
          [] OTHER ->
               IF did_change.content_changes = <<>>
               THEN [status |-> "panic", calls |-> <<>>, out |-> <<>>]
               ELSE IF res.ok
               THEN [status |-> "continue", calls |-> call, out |-> <<>>]
               ELSE IF checks /\ TranslateOverflows(res.pos)
               THEN [status |-> "panic", calls |-> call, out |-> <<>>]
               ELSE IF ~senderOpen
               THEN [status |-> "Err", calls |-> call, out |-> <<>>]
               ELSE [status |-> "continue", calls |-> call,
                     out |-> <<DiagNot(did_change.text_document, Diags(res))>>]

\* Mutant of HandleNotification: a notification is skipped when a later
\* didChange for the same document is already queued behind it.
HandleNotificationCoalesces(not, checks) ==
    LET did_change == not.params
        res == parse_str(ChangeText(did_change))
        call == <<ChangeText(did_change)>>
    IN  CASE cast_notification(not) = "Err" ->
               [status |-> "continue", calls |-> <<>>, out |-> <<>>]
          [] cast_notification(not) = "panic" ->
               [status |-> "panic", calls |-> <<>>, out |-> <<>>]
          [] OTHER ->
               IF did_change.content_changes = <<>>
               THEN [status |-> "panic", calls |-> <<>>, out |-> <<>>]
               ELSE IF \E j \in 2..Len(inbox) :
                          /\ inbox[j].kind = "Notification"
                          /\ inbox[j].method = DidChange
                          /\ inbox[j].params.text_document.uri
                                = did_change.text_document.uri
               THEN [status |-> "continue", calls |-> <<>>, out |-> <<>>]
               ELSE IF ~res.ok /\ checks /\ TranslateOverflows(res.pos)
               THEN [status |-> "panic", calls |-> call, out |-> <<>>]
               ELSE IF ~senderOpen
               THEN [status |-> "Err", calls |-> call, out |-> <<>>]
               ELSE [status |-> "continue", calls |-> call,
                     out |-> <<DiagNot(did_change.text_document, Diags(res))>>]

\* Mutant of HandleNotification: the error of send_diagnostics is dropped
\* and the loop goes on.
HandleNotificationDropsSendError(not, checks) ==
    LET did_change == not.params
        res == parse_str(ChangeText(did_change))
        call == <<ChangeText(did_change)>>
    IN  CASE cast_notification(not) = "Err" ->
               [status |-> "continue", calls |-> <<>>, out |-> <<>>]
          [] cast_notification(not) = "panic" ->
               [status |-> "panic", calls |-> <<>>, out |-> <<>>]
          [] OTHER ->
               IF did_change.content_changes = <<>>
               THEN [status |-> "panic", calls |-> <<>>, out |-> <<>>]
               ELSE IF ~res.ok /\ checks /\ TranslateOverflows(res.pos)
               THEN [status |-> "panic", calls |-> call, out |-> <<>>]
               ELSE IF ~senderOpen
               THEN [status |-> "continue", calls |-> call, out |-> <<>>]
               ELSE [status |-> "continue", calls |-> call,
                     out |-> <<DiagNot(did_change.text_document, Diags(res))>>]

\* What handling the notification does (main.rs 113-155):
\*   status  how the iteration ends: "continue", or main_loop's result
\*   calls   the texts parse_str was called with
\*   out     the messages sent
\*   checks  whether the build panics on arithmetic overflow (a debug
\*           build does, a release build wraps)
HandleNotification(not, checks) ==
    LET did_change == not.params
        res == parse_str(ChangeText(did_change))
        call == <<ChangeText(did_change)>>
    IN  CASE cast_notification(not) = "Err" ->
               [status |-> "continue", calls |-> <<>>, out |-> <<>>]
          [] cast_notification(not) = "panic" ->
               [status |-> "panic", calls |-> <<>>, out |-> <<>>]
          [] OTHER ->
               IF did_change.content_changes = <<>>
               THEN \* content_changes[0] of an empty Vec: index out of bounds
                    [status |-> "panic", calls |-> <<>>, out |-> <<>>]
               ELSE IF ~res.ok /\ checks /\ TranslateOverflows(res.pos)
               THEN [status |-> "panic", calls |-> call, out |-> <<>>]
               ELSE IF ~senderOpen
               THEN [status |-> "Err", calls |-> call, out |-> <<>>]
               ELSE [status |-> "continue", calls |-> call,
                     out |-> <<DiagNot(did_change.text_document, Diags(res))>>]

\* the effect of HandleNotification on the state
Apply(o) ==
    /\ validated' = validated \o
          [i \in 1..Len(o.calls) |-> [seq |-> NextMsg.seq, text |-> o.calls[i]]]
    /\ outbox' = outbox \o o.out
    /\ causes' = causes \o [i \in 1..Len(o.out) |-> NextMsg.seq]

\* a notification that leaves the loop running
LoopNotification ==
    /\ pc = "main_loop"
    /\ Receive
    /\ NextMsg.kind = "Notification"
    /\ \E checks \in BOOLEAN :
          /\ HandleNotification(NextMsg, checks).status = "continue"
          /\ Apply(HandleNotification(NextMsg, checks))
    /\ UNCHANGED <<profile, rxClosed, nsent, senderOpen, pc,
                   params, initialized, mainLoopResult, exitStatus, joined>>

\* a notification whose handling ends main_loop: the send failed, or a panic
LoopNotificationFatal ==
    /\ pc = "main_loop"
    /\ Receive
    /\ NextMsg.kind = "Notification"
    /\ \E checks \in BOOLEAN :
          /\ HandleNotification(NextMsg, checks).status # "continue"
          /\ Apply(HandleNotification(NextMsg, checks))
          /\ Return(HandleNotification(NextMsg, checks).status)
    /\ UNCHANGED <<profile, rxClosed, nsent, senderOpen,
                   params, initialized, joined>>

\* Mutant of LoopIgnore: a request without a handler is answered with a
\* "method not found" error response.
LoopIgnoreReplies ==
    /\ pc = "main_loop"
    /\ Receive
    /\ \/ /\ NextMsg.kind = "Request" /\ ~is_shutdown(NextMsg)
          /\ IF senderOpen
             THEN Sent(Response(NextMsg.id, [error |-> "MethodNotFound"]))
             ELSE UNCHANGED <<outbox, causes>>
       \/ NextMsg.kind = "Response" /\ UNCHANGED <<outbox, causes>>
    /\ UNCHANGED <<profile, rxClosed, nsent,
                   senderOpen, pc, params, initialized, mainLoopResult,
                   exitStatus, joined, validated>>

\* a request that handle_shutdown does not take (main.rs 88-106), and a
\* response (main.rs 107-109): nothing is done
LoopIgnore ==
    /\ pc = "main_loop"
    /\ Receive
    /\ \/ NextMsg.kind = "Request" /\ ~is_shutdown(NextMsg)
       \/ NextMsg.kind = "Response"
    /\ UNCHANGED <<profile, rxClosed, nsent, outbox, causes,
                   senderOpen, pc, params, initialized, mainLoopResult,
                   exitStatus, joined, validated>>

\* Mutant of LoopShutdown: the shutdown request is answered but the loop
\* does not stop.
LoopShutdownGoesOn ==
    /\ pc = "main_loop"
    /\ Receive
    /\ is_shutdown(NextMsg)
    /\ IF senderOpen
       THEN Sent(Response(NextMsg.id, NullResult))
       ELSE UNCHANGED <<outbox, causes>>
    /\ UNCHANGED <<profile, rxClosed, nsent, senderOpen, pc,
                   params, initialized, mainLoopResult, exitStatus, joined,
                   validated>>

\* connection.handle_shutdown(&req) of a shutdown request, up to its
\* blocking receive: the response is sent and a send error is dropped
\* (`let _ =`)
LoopShutdown ==
    /\ pc = "main_loop"
    /\ Receive
    /\ is_shutdown(NextMsg)
    /\ IF senderOpen
       THEN Sent(Response(NextMsg.id, NullResult))
       ELSE UNCHANGED <<outbox, causes>>
    /\ pc' = "handle_shutdown"
    /\ UNCHANGED <<profile, rxClosed, nsent, senderOpen,
                   params, initialized, mainLoopResult, exitStatus, joined,
                   validated>>

\* handle_shutdown receives the exit notification and returns Ok(true):
\* main_loop returns Ok(()) (main.rs 90)
HandleShutdownExit ==
    /\ pc = "handle_shutdown"
    /\ Receive
    /\ is_exit(NextMsg)
    /\ Return("Ok")
    /\ UNCHANGED <<profile, rxClosed, nsent, outbox, causes,
                   senderOpen, params, initialized, joined, validated>>

\* handle_shutdown receives another message, or none before its timeout,
\* and returns a ProtocolError, which `?` returns from main_loop
HandleShutdownErr ==
    /\ pc = "handle_shutdown"
    /\ \/ Receive /\ ~is_exit(NextMsg)
       \/ inbox = <<>> /\ UNCHANGED <<inbox, received>>
    /\ Return("Err")
    /\ UNCHANGED <<profile, rxClosed, nsent, outbox, causes,
                   senderOpen, params, initialized, joined, validated>>

\* the receiver's iterator ends: main_loop falls out of the `for` and
\* returns Ok(()) (main.rs 160)
LoopDisconnected ==
    /\ pc = "main_loop"
    /\ Disconnected
    /\ Return("Ok")
    /\ UNCHANGED <<profile, inbox, rxClosed, nsent, outbox,
                   causes, senderOpen, params, initialized, joined, received,
                   validated>>

\* io_threads.join()? (main.rs 72): the error of a pump thread is returned
Join ==
    /\ pc = "join"
    /\ joined' = TRUE
    /\ pc' = "exit"
    /\ exitStatus' = IF senderOpen THEN "Ok" ELSE "Err"
    /\ UNCHANGED <<profile, inbox, rxClosed, nsent, outbox,
                   causes, senderOpen, params, initialized, mainLoopResult,
                   received, validated>>

Next ==
    \/ ClientSend
    \/ ClientClose
    \/ WriterFail
    \/ InitializeStartOk
    \/ InitializeStartErr
    \/ InitializeFinishOk
    \/ InitializeFinishErr
    \/ LoopNotification
    \/ LoopNotificationFatal
    \/ LoopIgnore
    \/ LoopShutdown
    \/ HandleShutdownExit
    \/ HandleShutdownErr
    \/ LoopDisconnected
    \/ Join

Spec == Init /\ [][Next]_vars

SpecT == InitT /\ [][Next]_vars

\* the steps of the server's main thread
ServerNext ==
    \/ InitializeStartOk
    \/ InitializeStartErr
    \/ InitializeFinishOk
    \/ InitializeFinishErr
    \/ LoopNotification
    \/ LoopNotificationFatal
    \/ LoopIgnore
    \/ LoopShutdown
    \/ HandleShutdownExit
    \/ HandleShutdownErr
    \/ LoopDisconnected
    \/ Join

\* The main thread is scheduled: when it can take a step it eventually
\* takes one.  Nothing is assumed of the client or of the pump threads.
FairSpec == InitF /\ [][Next]_vars /\ WF_vars(ServerNext)

TypeOK ==
    /\ profile \in {"session", "translate", "short"}
    /\ pc \in {"initialize_start", "initialize_finish", "main_loop",
               "handle_shutdown", "join", "exit"}
    /\ mainLoopResult \in {"none", "Ok", "Err", "panic"}
    /\ exitStatus \in {"running", "Ok", "Err", "panic"}
    /\ Len(outbox) = Len(causes)
    /\ nsent = Len(received) + Len(inbox)

(***************************************************************************)
(* Vocabulary of the properties.                                           *)
(***************************************************************************)
IsDidChange(m) == m.kind = "Notification" /\ m.method = DidChange

\* a didChange notification whose params decode
IsDecodedChange(m) == IsDidChange(m) /\ m.params.decodable

\* the places in `received` of the messages with stream position s
ReceivedAt(s) == { k \in 1..Len(received) : received[k].seq = s }

\* the first two messages received are the handshake's; the main loop
\* dispatches every later message except the one handle_shutdown receives
InMainLoop(k) ==
    /\ k \in 3..Len(received)
    /\ ~is_shutdown(received[k - 1]) \/ k = 3

\* responses sent to request id
ResponsesTo(id) ==
    { i \in 1..Len(outbox) : outbox[i].kind = "Response" /\ outbox[i].id = id }

\* C1: every publication sent was produced by exactly one didChange
\* notification received before, and carries that notification's URI and
\* version; no two publications come from the same notification.
C1_PublicationMatchesItsNotification ==
    \A i \in Publications :
        /\ \E k \in ReceivedAt(causes[i]) :
              /\ IsDecodedChange(received[k])
              /\ received[k].params.text_document.uri = outbox[i].params.uri
              /\ received[k].params.text_document.version
                    = outbox[i].params.version
        /\ Cardinality(ReceivedAt(causes[i])) = 1
        /\ \A j \in Publications : causes[j] = causes[i] => j = i

\* two publications with different versions of one document have been sent
C1_Witness ==
    \E i, j \in Publications :
        /\ i < j
        /\ outbox[i].params.uri = outbox[j].params.uri
        /\ outbox[i].params.version = 2
        /\ outbox[j].params.version = 1

\* C2: once a valid initialize request and then the initialized
\* notification have been received the session is Initialized (the main
\* loop was entered without an error: as long as nothing more was received
\* it runs, or has ended because the channel was closed), and nothing is
\* validated or published before the handshake has completed: every
\* Validator call and every publication belongs to a message received
\* after the two handshake messages.
C2_HandshakeBeforeDispatch ==
    /\ ( /\ Len(received) >= 2
         /\ is_initialize(received[1])
         /\ received[1].params.decodable
         /\ is_initialized(received[2]) )
       => /\ initialized
          /\ Len(received) = 2 =>
                /\ pc \in {"main_loop", "join", "exit"}
                /\ mainLoopResult = IF pc = "main_loop" THEN "none" ELSE "Ok"
    /\ ~initialized => validated = <<>> /\ Publications = {}
    /\ \A i \in 1..Len(validated) : validated[i].seq > 2
    /\ \A i \in Publications : causes[i] > 2

\* the handshake was completed and a didChange was then validated and
\* answered
C2_Witness ==
    /\ initialized
    /\ is_initialize(received[1]) /\ received[1].params.decodable
    /\ is_initialized(received[2])
    /\ validated # <<>>
    /\ Publications # {}

\* the shutdown requests the main loop has received, as places in received
ShutdownsInLoop == { k \in 1..Len(received) : InMainLoop(k) /\ is_shutdown(received[k]) }

\* nothing that arrived after the message at place k has been validated
\* or answered with a publication
NothingProcessedAfter(k) ==
    /\ \A i \in 1..Len(validated) : validated[i].seq <= received[k].seq
    /\ \A i \in Publications : causes[i] <= received[k].seq

AcceptedChange(m, d) ==
    /\ IsDecodedChange(m)
    /\ m.params.text_document = d
    /\ m.params.content_changes # <<>>
    /\ parse_str(m.params.content_changes[1].text).ok

\* the notification with stream position n has been answered with a
\* publication that has no diagnostics and carries its URI and version
AnsweredEmpty(n) ==
    \E i \in Publications : \E k \in ReceivedAt(n) :
        /\ causes[i] = n
        /\ outbox[i].params.uri = received[k].params.text_document.uri
        /\ outbox[i].params.version = received[k].params.text_document.version
        /\ outbox[i].params.diagnostics = <<>>

\* C4: when the main loop is about to receive a didChange notification
\* whose text the Validator accepts, a publication with no diagnostics
\* and the notification's URI and version is eventually sent for it,
\* unless the transport no longer accepts sends.
C4_AcceptedTextIsAnswered ==
    \A n \in 3..MaxMsgsF :
        ( /\ pc = "main_loop"
          /\ inbox # <<>>
          /\ Head(inbox).seq = n
          /\ AcceptedChange(Head(inbox), Head(inbox).params.text_document) )
        ~> ( AnsweredEmpty(n) \/ ~senderOpen )

\* an accepted text was received in the main loop and answered with an
\* empty publication
C4_Witness ==
    \E i \in Publications : \E k \in ReceivedAt(causes[i]) :
        /\ InMainLoop(k)
        /\ AcceptedChange(received[k], received[k].params.text_document)
        /\ outbox[i].params.diagnostics = <<>>

\* n - 1 of a number n > 0, exactly (no width)
Pred(n) == IF n.lo > 0 THEN N(n.hi, n.lo - 1) ELSE N(n.hi - 1, Limb - 1)

\* the verdict of the Validator on the text of the notification at place k
Verdict(k) == parse_str(received[k].params.content_changes[1].text)

\* the publication i has exactly one diagnostic, of severity Error, whose
\* range starts at (L-1, C-1) for the position pos = (L, C)
StartsAt(i, pos) ==
    /\ Len(outbox[i].params.diagnostics) = 1
    /\ outbox[i].params.diagnostics[1].range.start
          = [line |-> Pred(pos[1]), character |-> Pred(pos[2])]
    /\ outbox[i].params.diagnostics[1].severity = "Error"

OneBased(pos) == pos[1] # Zero /\ pos[2] # Zero

\* C5 as stated: for every text the Validator rejects with a 1-based
\* position (L, C), the diagnostic published for the notification starts
\* at exactly (L-1, C-1) and has severity Error.
C5_Original ==
    \A i \in Publications : \A k \in ReceivedAt(causes[i]) :
        (~Verdict(k).ok /\ OneBased(Verdict(k).pos))
            => StartsAt(i, Verdict(k).pos)

\* C5 amended: for every text the Validator rejects with a 1-based
\* position (L, C) whose line and column are at most 2^32 - 1, the
\* diagnostic published for the notification starts at exactly (L-1, C-1)
\* and has severity Error.
C5_StartIsExact ==
    \A i \in Publications : \A k \in ReceivedAt(causes[i]) :
        ( /\ ~Verdict(k).ok
          /\ OneBased(Verdict(k).pos)
          /\ IsU32(Verdict(k).pos[1])
          /\ IsU32(Verdict(k).pos[2]) )
            => StartsAt(i, Verdict(k).pos)

\* a text rejected at (3, 5) was answered with a diagnostic at (2, 4), and
\* one rejected at column 2^32 - 99, whose end overflows, was answered too
C5_Witness ==
    /\ \E i \in Publications : \E k \in ReceivedAt(causes[i]) :
          /\ Verdict(k).pos = <<N(0, 3), N(0, 5)>>
          /\ outbox[i].params.diagnostics[1].range.start
                = [line |-> N(0, 2), character |-> N(0, 4)]
    /\ \E i \in Publications : \E k \in ReceivedAt(causes[i]) :
          /\ ~Verdict(k).ok
          /\ Verdict(k).pos[2] = N(Limb - 1, Limb - 99)

\* C6: publications are sent in the arrival order of the notifications
\* that caused them (for any two publications, of the same document or
\* not, the one sent first answers the notification that arrived first),
\* and messages are received in their arrival order.
C6_PublishedInArrivalOrder ==
    /\ \A i, j \in Publications : i < j => causes[i] < causes[j]
    /\ \A k \in 1..Len(received) : received[k].seq = k

\* two notifications for the same document were answered, the later one
\* while it was already waiting behind the earlier one
C6_Witness ==
    \E i, j \in Publications :
        /\ i < j
        /\ outbox[i].params.uri = outbox[j].params.uri
        /\ causes[j] = causes[i] + 1

\* C7: two publications that answer equal didChange notifications (same
\* URI, version and content changes) are equal, whatever was received
\* before or between them.
C7_SameNotificationSamePublication ==
    \A i, j \in Publications :
        \A k \in ReceivedAt(causes[i]), l \in ReceivedAt(causes[j]) :
            received[k].params = received[l].params => outbox[i] = outbox[j]

\* the same rejected notification was answered twice, with another
\* publication for the same document between the two
C7_Witness ==
    \E i, j \in Publications :
        \E k \in ReceivedAt(causes[i]), l \in ReceivedAt(causes[j]) :
            /\ i + 1 < j
            /\ received[k].params = received[l].params
            /\ outbox[i].params.diagnostics # <<>>
            /\ outbox[i + 1].kind = "Notification"
            /\ outbox[i + 1].params.uri = outbox[i].params.uri
            /\ outbox[i + 1] # outbox[i]

\* C8 as stated: a didChange notification with no content-change entry or
\* with more than one never crashes the loop.
C8_OddChangeNeverCrashes ==
    \A k \in 1..Len(received) :
        ( /\ InMainLoop(k)
          /\ k = Len(received)
          /\ IsDecodedChange(received[k])
          /\ Len(received[k].params.content_changes) # 1 )
            => mainLoopResult # "panic"

\* C9 as stated: main_loop returns success only when it ended through the
\* shutdown path; a channel closed without a shutdown request gives
\* another outcome.
C9_SuccessOnlyViaShutdown ==
    mainLoopResult = "Ok" => ShutdownsInLoop # {}

\* C10 as stated: a notification of another method, or a didChange
\* notification whose params do not decode, causes no outbound message
\* and no Validator call, and the loop goes on (it has not ended with an
\* error or a panic when that notification is the last message received).
C10_UnhandledNotificationIsSkipped ==
    \A k \in 1..Len(received) :
        ( /\ InMainLoop(k)
          /\ received[k].kind = "Notification"
          /\ ~IsDecodedChange(received[k]) )
            => /\ \A i \in 1..Len(outbox) : causes[i] # received[k].seq
               /\ \A i \in 1..Len(validated) :
                     validated[i].seq # received[k].seq
               /\ k = Len(received) => mainLoopResult \in {"none", "Ok"}

\* a response, or a request other than shutdown
Ignorable(m) ==
    m.kind = "Response" \/ (m.kind = "Request" /\ ~is_shutdown(m))

SendsFor(k) == { i \in 1..Len(outbox) : causes[i] = received[k].seq }

\* the handling of the message at place k ended the loop with a panic
PanickedAt(k) == k = Len(received) /\ mainLoopResult = "panic"

\* a didChange notification that reaches the Validator: its params decode
\* and it has a content-change entry
IsValidatedChange(m) == IsDecodedChange(m) /\ m.params.content_changes # <<>>

\* the publication for the notification at place k could not be sent
PublicationSendFailed(k) ==
    /\ InMainLoop(k)
    /\ IsValidatedChange(received[k])
    /\ SendsFor(k) = {}
    /\ ~PanickedAt(k)

\* the response to the shutdown request at place k could not be sent
ShutdownSendFailed(k) == k \in ShutdownsInLoop /\ SendsFor(k) = {}

\* the failure at place k was fatal: main_loop returned an error at once
\* and nothing was received or processed after it
FatalAt(k) ==
    /\ mainLoopResult = "Err"
    /\ pc = "exit"
    /\ k = Len(received)
    /\ NothingProcessedAfter(k)

\* C12 as stated: whenever the send of an outbound message fails in the
\* main loop, main_loop returns an error at once, the send is not
\* repeated and no later message is processed.
C12_Original ==
    \A k \in 1..Len(received) :
        (PublicationSendFailed(k) \/ ShutdownSendFailed(k)) => FatalAt(k)

\* C12 amended: whenever the send of a publishDiagnostics notification
\* fails, main_loop returns an error at once, the send is not repeated
\* and no later message is processed.  (The error of sending the shutdown
\* response is dropped by handle_shutdown.)
C12_FailedPublicationIsFatal ==
    \A k \in 1..Len(received) : PublicationSendFailed(k) => FatalAt(k)

\* a publication could not be sent, main_loop returned an error, and a
\* later message is left in the channel
C12_Witness ==
    \E k \in 1..Len(received) :
        /\ PublicationSendFailed(k)
        /\ mainLoopResult = "Err"
        /\ inbox # <<>>

\* the responses sent to initialize requests
InitializeResponses ==
    { i \in 1..Len(outbox) :
        /\ outbox[i].kind = "Response"
        /\ \E k \in 1..Len(received) :
              is_initialize(received[k]) /\ received[k].id = outbox[i].id }

\* C13: once the handshake has received the initialize request, exactly
\* one response to an initialize request has been sent, it is the first
\* outbound message, it answers that request and declares
\* textDocumentSync = Full, and every publishDiagnostics comes after it;
\* before that, nothing at all has been sent.
C13_OneInitializeResponseFirst ==
    IF received # <<>> /\ is_initialize(received[1])
    THEN /\ InitializeResponses = {1}
         /\ outbox[1].id = received[1].id
         /\ outbox[1].result.capabilities.textDocumentSync = "Full"
         /\ \A i \in Publications : i > 1
    ELSE outbox = <<>>

\* an initialize request was answered during the handshake, a second one
\* was received by the main loop, and a publication has been sent
C13_Witness ==
    /\ initialized
    /\ Publications # {}
    /\ \E k \in 3..Len(received) : is_initialize(received[k])

\* C14: every publication carries no diagnostic when the Validator
\* accepted the text of its notification and exactly one when it rejected
\* it, and the handling of a rejected text never ends the loop by itself:
\* it ends with the publication sent, or with the error of a failed send.
C14_RejectionIsRecoverable ==
    /\ \A i \in Publications : \A k \in ReceivedAt(causes[i]) :
          Len(outbox[i].params.diagnostics)
              = IF Verdict(k).ok THEN 0 ELSE 1
    /\ \A k \in 1..Len(received) :
          ( /\ InMainLoop(k)
            /\ IsValidatedChange(received[k])
            /\ ~Verdict(k).ok )
              => ~PanickedAt(k)

\* the didChange notifications for uri that the main loop has validated
ChangesOf(uri) ==
    { k \in 1..Len(received) :
        /\ InMainLoop(k)
        /\ IsValidatedChange(received[k])
        /\ received[k].params.text_document.uri = uri }

\* the publications sent for uri
PublicationsOf(uri) == { i \in Publications : outbox[i].params.uri = uri }

Last(S) == CHOOSE n \in S : \A m \in S : m <= n

Uris == { d.uri : d \in SessionDocuments \cup TranslateDocuments }

\* C15: whenever the loop waits for the next message, the latest
\* publication for a URI answers the latest didChange notification
\* processed for that URI, and is empty exactly when the Validator accepts
\* that notification's text (so after a rejected and then an accepted text
\* the latest publication is empty); a URI with no processed notification
\* has no publication.
C15_LatestPublicationIsCurrent ==
    pc = "main_loop" =>
        \A uri \in Uris :
            IF ChangesOf(uri) = {}
            THEN PublicationsOf(uri) = {}
            ELSE /\ PublicationsOf(uri) # {}
                 /\ causes[Last(PublicationsOf(uri))]
                       = received[Last(ChangesOf(uri))].seq
                 /\ (outbox[Last(PublicationsOf(uri))].params.diagnostics
                        = <<>>)
                       <=> Verdict(Last(ChangesOf(uri))).ok

\* the loop waits, and for one URI a publication with a diagnostic was
\* followed by an empty one, which is the latest
C15_Witness ==
    /\ pc = "main_loop"
    /\ \E uri \in Uris : \E i \in PublicationsOf(uri) :
          /\ outbox[i].params.diagnostics # <<>>
          /\ i < Last(PublicationsOf(uri))
          /\ outbox[Last(PublicationsOf(uri))].params.diagnostics = <<>>

\* the didChange notifications the main loop has validated
ValidatedChanges ==
    { k \in 1..Len(received) :
        InMainLoop(k) /\ IsValidatedChange(received[k]) }

\* those of them with exactly one content-change entry
SingleEntryChanges ==
    { k \in ValidatedChanges :
        Len(received[k].params.content_changes) = 1 }

\* the handling of the message at place k ended the loop: its send failed
\* or its translation panicked
EndedLoopAt(k) ==
    k = Len(received) /\ mainLoopResult \in {"Err", "panic"}

\* C16 as stated: every decodable single-entry didChange notification the
\* loop has consumed has exactly one publication, and there are as many
\* publications as such notifications.
C16_Original ==
    /\ \A k \in SingleEntryChanges : Cardinality(SendsFor(k)) = 1
    /\ Cardinality(Publications) = Cardinality(SingleEntryChanges)

\* C16 amended: every decodable didChange notification with at least one
\* content-change entry that the loop has consumed has exactly one
\* publication, whatever is queued behind it, except the one whose
\* handling ended the loop (a failed send, a panic), which has none; so
\* there are as many publications as such notifications, less that one.
C16_OnePublicationPerChange ==
    /\ \A k \in ValidatedChanges :
          /\ SendsFor(k) \subseteq Publications
          /\ Cardinality(SendsFor(k)) = IF EndedLoopAt(k) THEN 0 ELSE 1
    /\ Cardinality(Publications)
          = Cardinality({ k \in ValidatedChanges : ~EndedLoopAt(k) })

\* version 1 and then version 2 of one document were consumed one after
\* the other and each has its own publication, while a third notification
\* for that document is queued
C16_Witness ==
    \E k \in SingleEntryChanges :
        /\ k + 1 \in SingleEntryChanges
        /\ received[k].params.text_document.uri
              = received[k + 1].params.text_document.uri
        /\ received[k].params.text_document.version = 1
        /\ received[k + 1].params.text_document.version = 2
        /\ Cardinality(SendsFor(k)) = 1
        /\ Cardinality(SendsFor(k + 1)) = 1
        /\ inbox # <<>>
        /\ IsDecodedChange(Head(inbox))
        /\ Head(inbox).params.text_document.uri
              = received[k].params.text_document.uri

\* the validated didChange notifications with more than one entry
MultiEntryChanges ==
    { k \in ValidatedChanges : Len(received[k].params.content_changes) > 1 }

\* the Validator calls made while the message at place k was handled
CallsFor(k) ==
    { j \in 1..Len(validated) : validated[j].seq = received[k].seq }

\* the Validator was called once for the notification at place k, with the
\* text of its first entry
FirstEntryValidated(k) ==
    /\ Cardinality(CallsFor(k)) = 1
    /\ \A j \in CallsFor(k) :
          validated[j].text = received[k].params.content_changes[1].text

\* every publication for the notification at place k has the document of
\* the notification and is empty exactly when the first entry's text is
\* accepted
AnswersFirstEntry(k) ==
    \A i \in SendsFor(k) :
        /\ IsPublication(outbox[i])
        /\ outbox[i].params.uri = received[k].params.text_document.uri
        /\ (outbox[i].params.diagnostics = <<>>)
              <=> parse_str(received[k].params.content_changes[1].text).ok

\* C17 as stated: for a didChange notification with more than one entry
\* the first entry's text, and only it, is validated, exactly one
\* publication is sent, and the publication is that of the first entry.
C17_Original ==
    \A k \in MultiEntryChanges :
        /\ FirstEntryValidated(k)
        /\ Cardinality(SendsFor(k)) = 1
        /\ AnswersFirstEntry(k)

\* C17 amended: for a didChange notification with more than one entry the
\* first entry's text, and only it, is validated, and exactly one
\* publication is sent, which is that of the first entry, unless the
\* handling ends the loop (the send fails), when none is sent.
C17_FirstEntryOnly ==
    \A k \in MultiEntryChanges :
        /\ FirstEntryValidated(k)
        /\ Cardinality(SendsFor(k)) = IF EndedLoopAt(k) THEN 0 ELSE 1
        /\ AnswersFirstEntry(k)

\* a notification whose first entry is rejected and whose second entry is
\* accepted was answered with one diagnostic
C17_Witness ==
    \E k \in MultiEntryChanges : \E i \in SendsFor(k) :
        /\ ~parse_str(received[k].params.content_changes[1].text).ok
        /\ parse_str(received[k].params.content_changes[2].text).ok
        /\ Len(outbox[i].params.diagnostics) = 1

\* C18: whenever main has returned (with success, with the error of the
\* handshake or with the error of the main loop) the two pump threads of
\* the transport have been joined.
C18_JoinedBeforeExit ==
    (pc = "exit" /\ exitStatus \in {"Ok", "Err"}) => joined

\* C19: in every published diagnostic the end of the range is on the line
\* of the start and end.character = start.character + 100 (the sum as a
\* number, not wrapped), so the start lies before the end.
C19_EndIsStartPlusSpan ==
    \A i \in Publications :
        \A j \in 1..Len(outbox[i].params.diagnostics) :
            LET range == outbox[i].params.diagnostics[j].range
            IN  /\ range.end.line = range.start.line
                /\ ~AddOverflows(range.start.character, EndOffset + 1)
                /\ range.end.character
                      = AddWrapping(range.start.character, EndOffset + 1)
                /\ Less(range.start.character, range.end.character)

\* the validated didChange notifications whose text the Validator rejects
RejectedChanges == { k \in ValidatedChanges : ~Verdict(k).ok }

\* the low 32 bits of n are all zero
TruncatesToZero(n) == n.lo = 0 /\ n.hi % Limb = 0

\* what the claim says of the notification at place k, rejected at pos,
\* when zero(n) tells the coordinates whose subtraction underflows: the
\* subtraction underflows for just those; a publication sent for k has
\* 2^32 - 1 in just those coordinates of its start; and the handling
\* panics only for an underflow (or for the overflow of the range end)
UnderflowIs(zero(_), k, pos) ==
    /\ StartUnderflows(pos) <=> (zero(pos[1]) \/ zero(pos[2]))
    /\ \A i \in SendsFor(k) :
          LET start == outbox[i].params.diagnostics[1].range.start
          IN  /\ start.line = U32Max <=> zero(pos[1])
              /\ start.character = U32Max <=> zero(pos[2])
    /\ PanickedAt(k) =>
          \/ zero(pos[1])
          \/ zero(pos[2])
          \/ AddOverflows(AsU32(pos[2]), EndOffset)

IsZero(n) == n = Zero

\* C20 as stated: the start is computed without underflow exactly when
\* the Validator's position has line >= 1 and column >= 1; with line = 0
\* or column = 0 the subtraction underflows, and the coordinate wraps to
\* 2^32 - 1 or the handling aborts.
C20_Original ==
    \A k \in RejectedChanges : UnderflowIs(IsZero, k, Verdict(k).pos)

\* C20 amended: the start is computed without underflow exactly when
\* neither the line nor the column of the Validator's position is a
\* multiple of 2^32 (for a position below 2^32: when line >= 1 and
\* column >= 1); otherwise the subtraction underflows, and the coordinate
\* wraps to 2^32 - 1 or the handling aborts.
C20_UnderflowAtZeroModulo ==
    \A k \in RejectedChanges : UnderflowIs(TruncatesToZero, k, Verdict(k).pos)

\* a text rejected at line 0 was answered with a diagnostic whose start
\* line is 2^32 - 1, and the handling of a later one, rejected at column
\* 0, panicked
C20_Witness ==
    /\ \E k \in RejectedChanges : \E i \in SendsFor(k) :
          /\ Verdict(k).pos[1] = Zero
          /\ outbox[i].params.diagnostics[1].range.start.line = U32Max
    /\ \E k \in RejectedChanges :
          /\ Verdict(k).pos[2] = Zero
          /\ PanickedAt(k)

====
